---------------------------- MODULE Spec2Model ----------------------------
(***************************************************************************)
(* A model of studentData3.py: the profile extractor, the generation and   *)
(* insert loop over the SQLite table, and the question answerer.           *)
(*                                                                         *)
(* Python strings are sequences of one-character strings, so that          *)
(* re.search, str.split, str.strip, str.lower and the `in` test are        *)
(* computed character by character, as Python computes them.               *)
(***************************************************************************)
EXTENDS Integers, Sequences, FiniteSets, TLC

VARIABLES
    store,          \* the committed rows of the student table, in insert order
    table,          \* whether student.db holds the student table
    txn,            \* the rows inserted on the open connection, not committed
    before,         \* the committed rows when the current batch started
    num_records,    \* the number typed in the number input
    clicked,        \* the button pressed for this run of the script
    question,       \* the question asked
    content_text,   \* extract_student_info's argument
    response,       \* what the last generation call gave
    student,        \* the value generate_student_profile / extract_student_info gave
    records,        \* the rows fetch_records gave
    fetched,        \* whether this run has read the table
    shown,          \* the rows given to st.table
    answer,         \* the value answer_question gave
    iter,           \* the iterations of the insert loop done
    skipped,        \* the iterations of the current batch that were skipped
    pc              \* position of the control flow

vars ==
    <<store, table, txn, before, num_records, clicked, question, content_text,
      response, student, records, fetched, shown, answer, iter, skipped, pc>>

-----------------------------------------------------------------------------
(* Bounds of the model. *)

\* The longest input text, counted in pieces of TextPieces.
MaxPieces == 4

\* The longest question, counted in pieces of QuestionPieces.
MaxQuestionPieces == 2

\* The most rows answer_question is given.
MaxRecords == 2

\* The most rows the table comes to hold.
MaxRows == 3

\* The largest number of records asked for in one batch.
MaxBatch == 2

-----------------------------------------------------------------------------
(* Python's str operations. *)

Min(S) == CHOOSE x \in S : \A y \in S : x <= y

Max(S) == CHOOSE x \in S : \A y \in S : x >= y

\* s[i:] starts with p, for a position i of s counted from 1 and p not
\* empty; the first character is compared first.
StartsWithAt(s, p, i) ==
    /\ s[i] = p[1]
    /\ i + Len(p) - 1 <= Len(s)
    /\ \A k \in 2..Len(p) : s[i + k - 1] = p[k]

\* The positions at which p occurs in s.
Occurrences(s, p) == {i \in 1..Len(s) : StartsWithAt(s, p, i)}

\* `p in s`, p not empty.
Contains(s, p) == \E i \in 1..Len(s) : StartsWithAt(s, p, i)

\* s.find(p), counted from 1: the first position at which p occurs, 0 when
\* there is none.
find(s, p) ==
    IF Contains(s, p)
    THEN CHOOSE i \in 1..Len(s) :
             /\ StartsWithAt(s, p, i)
             /\ \A j \in 1..(i - 1) : ~StartsWithAt(s, p, j)
    ELSE 0

\* s.split(sep): the parts between the non-overlapping occurrences of sep,
\* found from the left.
RECURSIVE split(_, _)
split(s, sep) ==
    LET i == find(s, sep)
    IN  IF i = 0
        THEN <<s>>
        ELSE <<SubSeq(s, 1, i - 1)>> \o split(SubSeq(s, i + Len(sep), Len(s)), sep)

\* s.strip(chars): the characters of `chars` removed from both ends.
RECURSIVE lstrip(_, _)
lstrip(s, chars) ==
    IF s # <<>> /\ Head(s) \in chars THEN lstrip(Tail(s), chars) ELSE s

RECURSIVE rstrip(_, _)
rstrip(s, chars) ==
    IF s # <<>> /\ s[Len(s)] \in chars
    THEN rstrip(SubSeq(s, 1, Len(s) - 1), chars)
    ELSE s

strip(s, chars) == rstrip(lstrip(s, chars), chars)

\* What str.strip() with no argument removes.
Whitespace == {" ", "\t", "\n", "\r"}

\* sep.join(items)
RECURSIVE join(_, _)
join(sep, items) ==
    IF items = <<>> THEN <<>>
    ELSE IF Len(items) = 1 THEN items[1]
    ELSE items[1] \o sep \o join(sep, Tail(items))

Digits == {"0", "1", "2", "3", "4", "5", "6", "7", "8", "9"}

DigitValue(c) ==
    CASE c = "0" -> 0 [] c = "1" -> 1 [] c = "2" -> 2 [] c = "3" -> 3
      [] c = "4" -> 4 [] c = "5" -> 5 [] c = "6" -> 6 [] c = "7" -> 7
      [] c = "8" -> 8 [] c = "9" -> 9

\* int(s): the value of a string of decimal digits, and a ValueError for the
\* empty string or a string holding anything else.
RECURSIVE DecimalValue(_)
DecimalValue(s) ==
    IF s = <<>> THEN 0
    ELSE 10 * DecimalValue(SubSeq(s, 1, Len(s) - 1)) + DigitValue(s[Len(s)])

int(s) ==
    IF s # <<>> /\ \A k \in 1..Len(s) : s[k] \in Digits
    THEN [error |-> FALSE, value |-> DecimalValue(s)]
    ELSE [error |-> TRUE, value |-> 0]

-----------------------------------------------------------------------------
(* extract_student_info *)

\* The patterns of the four fields: the literal text the pattern starts
\* with, and the class of the captured group, (.+) or (\d+).
NameMarker == <<"*", "*", "N", "a", "m", "e", ":", "*", "*", " ">>
AgeMarker == <<"*", "*", "A", "g", "e", ":", "*", "*", " ">>
MarksMarker == <<"*", "*", "M", "a", "r", "k", "s", ":", "*", "*", " ">>
DepartmentMarker ==
    <<"*", "*", "D", "e", "p", "a", "r", "t", "m", "e", "n", "t", ":", "*", "*", " ">>
HobbiesMarker == <<"*", "*", "H", "o", "b", "b", "i", "e", "s", ":", "*", "*">>
SportMarker == <<"*", "*", "S", "p", "o", "r", "t", ":", "*", "*">>

NamePattern == [literal |-> NameMarker, group |-> "any"]

\* A variant of AgePattern: the group written (.+), as for the name.
AgePatternAnyGroup == [literal |-> AgeMarker, group |-> "any"]

AgePattern == [literal |-> AgeMarker, group |-> "digits"]
MarksPattern == [literal |-> MarksMarker, group |-> "digits"]
DepartmentPattern == [literal |-> DepartmentMarker, group |-> "any"]

Unknown == <<"U", "n", "k", "n", "o", "w", "n">>
Zero == <<"0">>

\* The characters one step of the group matches: \d a digit, . anything but
\* a newline.
InGroup(c, group) == IF group = "digits" THEN c \in Digits ELSE c # "\n"

\* The positions at which the pattern matches: its literal, then at least
\* one character of the group.
MatchStarts(pattern, text) ==
    {i \in Occurrences(text, pattern.literal) :
        /\ i + Len(pattern.literal) <= Len(text)
        /\ InGroup(text[i + Len(pattern.literal)], pattern.group)}

\* The greedy group: the longest run of group characters from position i.
RECURSIVE GroupEnd(_, _, _)
GroupEnd(text, i, group) ==
    IF i + 1 <= Len(text) /\ InGroup(text[i + 1], group)
    THEN GroupEnd(text, i + 1, group)
    ELSE i

\* re.search(pattern, text): the leftmost match; match.group(1), or no match.
re_search(pattern, text) ==
    LET starts == MatchStarts(pattern, text)
    IN  IF starts = {}
        THEN [match |-> FALSE, group1 |-> <<>>]
        ELSE LET b == Min(starts) + Len(pattern.literal)
             IN  [match |-> TRUE,
                  group1 |-> SubSeq(text, b, GroupEnd(text, b, pattern.group))]

extract_field(pattern, text, default) ==
    LET m == re_search(pattern, text)
    IN  IF m.match THEN strip(m.group1, Whitespace) ELSE default

\* [item.strip("* ").strip() for item in section.split("\n") if item.strip()]
RECURSIVE ItemsOfLines(_)
ItemsOfLines(lines) ==
    IF lines = <<>> THEN <<>>
    ELSE IF strip(Head(lines), Whitespace) # <<>>
         THEN <<strip(strip(Head(lines), {"*", " "}), Whitespace)>>
                  \o ItemsOfLines(Tail(lines))
         ELSE ItemsOfLines(Tail(lines))

section_items(section) == ItemsOfLines(split(section, <<"\n">>))

\* A variant of hobbies_of: the last part, [-1], taken for the second, [1].
hobbies_of_last_part(text) ==
    LET parts == split(text, HobbiesMarker)
    IN  section_items(split(parts[Len(parts)], SportMarker)[1])

\* content_text.split("**Hobbies:**")[1].split("**Sport:**")[0], the
\* IndexError of a missing second part caught.
hobbies_of(text) ==
    LET parts == split(text, HobbiesMarker)
    IN  IF Len(parts) < 2 THEN <<>>
        ELSE section_items(split(parts[2], SportMarker)[1])

\* A variant of sports_of: the text split at the first marker only,
\* split("**Sport:**", 1), so that the second part runs to the end.
sports_of_to_end(text) ==
    IF ~Contains(text, SportMarker) THEN <<>>
    ELSE section_items(SubSeq(text, find(text, SportMarker) + Len(SportMarker),
                              Len(text)))

\* content_text.split("**Sport:**")[1], the IndexError caught.
sports_of(text) ==
    LET parts == split(text, SportMarker)
    IN  IF Len(parts) < 2 THEN <<>>
        ELSE section_items(parts[2])

CommaSpace == <<",", " ">>

\* The values of `student`: the dictionary extract_student_info builds, None,
\* or the exception a call ended in.
StudentInfo(name, age, marks, department, hobbies, sport) ==
    [type |-> "dict", name |-> name, age |-> age, marks |-> marks,
     department |-> department, hobbies |-> hobbies, sport |-> sport]

NoStudent(type) ==
    [type |-> type, name |-> <<>>, age |-> 0, marks |-> 0,
     department |-> <<>>, hobbies |-> <<>>, sport |-> <<>>]

None == NoStudent("None")

extract_student_info(text) ==
    LET age == int(extract_field(AgePattern, text, Zero))
        marks == int(extract_field(MarksPattern, text, Zero))
    IN  IF age.error \/ marks.error
        THEN NoStudent("ValueError")
        ELSE StudentInfo(extract_field(NamePattern, text, Unknown),
                         age.value,
                         marks.value,
                         extract_field(DepartmentPattern, text, Unknown),
                         join(CommaSpace, hobbies_of(text)),
                         join(CommaSpace, sports_of(text)))

-----------------------------------------------------------------------------
(* answer_question *)

UpperCase ==
    {"A", "B", "C", "D", "E", "F", "G", "H", "I", "J", "K", "L", "M",
     "N", "O", "P", "Q", "R", "S", "T", "U", "V", "W", "X", "Y", "Z"}

LowerOf(c) ==
    CASE c = "A" -> "a" [] c = "B" -> "b" [] c = "C" -> "c" [] c = "D" -> "d"
      [] c = "E" -> "e" [] c = "F" -> "f" [] c = "G" -> "g" [] c = "H" -> "h"
      [] c = "I" -> "i" [] c = "J" -> "j" [] c = "K" -> "k" [] c = "L" -> "l"
      [] c = "M" -> "m" [] c = "N" -> "n" [] c = "O" -> "o" [] c = "P" -> "p"
      [] c = "Q" -> "q" [] c = "R" -> "r" [] c = "S" -> "s" [] c = "T" -> "t"
      [] c = "U" -> "u" [] c = "V" -> "v" [] c = "W" -> "w" [] c = "X" -> "x"
      [] c = "Y" -> "y" [] c = "Z" -> "z"

\* s.lower()
lower(s) ==
    SubSeq([k \in 1..Len(s) |-> IF s[k] \in UpperCase THEN LowerOf(s[k]) ELSE s[k]],
           1, Len(s))

\* "average age"
AverageAgeTrigger ==
    <<"a", "v", "e", "r", "a", "g", "e", " ", "a", "g", "e">>

\* "highest marks"
HighestMarksTrigger ==
    <<"h", "i", "g", "h", "e", "s", "t", " ", "m", "a", "r", "k", "s">>

\* "students in the computer science department"
ComputerScienceTrigger ==
    <<"s", "t", "u", "d", "e", "n", "t", "s", " ", "i", "n", " ", "t", "h",
      "e", " ", "c", "o", "m", "p", "u", "t", "e", "r", " ", "s", "c", "i",
      "e", "n", "c", "e", " ", "d", "e", "p", "a", "r", "t", "m", "e", "n",
      "t">>

\* "common hobbies"
CommonHobbiesTrigger ==
    <<"c", "o", "m", "m", "o", "n", " ", "h", "o", "b", "b", "i", "e", "s">>

\* "distribution of marks"
DistributionTrigger ==
    <<"d", "i", "s", "t", "r", "i", "b", "u", "t", "i", "o", "n", " ", "o",
      "f", " ", "m", "a", "r", "k", "s">>

\* "highest average marks"
HighestAverageTrigger ==
    <<"h", "i", "g", "h", "e", "s", "t", " ", "a", "v", "e", "r", "a", "g",
      "e", " ", "m", "a", "r", "k", "s">>

\* "all student names"
NamesTrigger ==
    <<"a", "l", "l", " ", "s", "t", "u", "d", "e", "n", "t", " ", "n", "a",
      "m", "e", "s">>

\* "all student ages"
AgesTrigger ==
    <<"a", "l", "l", " ", "s", "t", "u", "d", "e", "n", "t", " ", "a", "g",
      "e", "s">>

\* "all student hobbies"
HobbiesTrigger ==
    <<"a", "l", "l", " ", "s", "t", "u", "d", "e", "n", "t", " ", "h", "o",
      "b", "b", "i", "e", "s">>

\* "all student departments"
DepartmentsTrigger ==
    <<"a", "l", "l", " ", "s", "t", "u", "d", "e", "n", "t", " ", "d", "e",
      "p", "a", "r", "t", "m", "e", "n", "t", "s">>

\* "all student sports"
SportsTrigger ==
    <<"a", "l", "l", " ", "s", "t", "u", "d", "e", "n", "t", " ", "s", "p",
      "o", "r", "t", "s">>

\* "computer science"
ComputerScience ==
    <<"c", "o", "m", "p", "u", "t", "e", "r", " ", "s", "c", "i", "e", "n",
      "c", "e">>

\* "The average age of the students is "
AverageAgePrefix ==
    <<"T", "h", "e", " ", "a", "v", "e", "r", "a", "g", "e", " ", "a", "g",
      "e", " ", "o", "f", " ", "t", "h", "e", " ", "s", "t", "u", "d", "e",
      "n", "t", "s", " ", "i", "s", " ">>

\* " years."
AverageAgeSuffix ==
    <<" ", "y", "e", "a", "r", "s", ".">>

\* "The highest marks achieved is "
HighestMarksPrefix ==
    <<"T", "h", "e", " ", "h", "i", "g", "h", "e", "s", "t", " ", "m", "a",
      "r", "k", "s", " ", "a", "c", "h", "i", "e", "v", "e", "d", " ", "i",
      "s", " ">>

\* "There are "
CountPrefix ==
    <<"T", "h", "e", "r", "e", " ", "a", "r", "e", " ">>

\* " students in the Computer Science department."
CountSuffix ==
    <<" ", "s", "t", "u", "d", "e", "n", "t", "s", " ", "i", "n", " ", "t",
      "h", "e", " ", "C", "o", "m", "p", "u", "t", "e", "r", " ", "S", "c",
      "i", "e", "n", "c", "e", " ", "d", "e", "p", "a", "r", "t", "m", "e",
      "n", "t", ".">>

\* "The most common hobby among students is "
CommonHobbyPrefix ==
    <<"T", "h", "e", " ", "m", "o", "s", "t", " ", "c", "o", "m", "m", "o",
      "n", " ", "h", "o", "b", "b", "y", " ", "a", "m", "o", "n", "g", " ",
      "s", "t", "u", "d", "e", "n", "t", "s", " ", "i", "s", " ">>

\* "The department with the highest average marks is "
HighestAveragePrefix ==
    <<"T", "h", "e", " ", "d", "e", "p", "a", "r", "t", "m", "e", "n", "t",
      " ", "w", "i", "t", "h", " ", "t", "h", "e", " ", "h", "i", "g", "h",
      "e", "s", "t", " ", "a", "v", "e", "r", "a", "g", "e", " ", "m", "a",
      "r", "k", "s", " ", "i", "s", " ">>

\* "Sorry, I couldn't understand the q."
NotUnderstood ==
    <<"S", "o", "r", "r", "y", ",", " ", "I", " ", "c", "o", "u", "l", "d",
      "n", "'", "t", " ", "u", "n", "d", "e", "r", "s", "t", "a", "n", "d",
      " ", "t", "h", "e", " ", "q", "u", "e", "s", "t", "i", "o", "n", ".">>

DigitChar(d) ==
    CASE d = 0 -> "0" [] d = 1 -> "1" [] d = 2 -> "2" [] d = 3 -> "3"
      [] d = 4 -> "4" [] d = 5 -> "5" [] d = 6 -> "6" [] d = 7 -> "7"
      [] d = 8 -> "8" [] d = 9 -> "9"

\* str(n) of an integer n >= 0, as an f-string embeds it.
RECURSIVE str(_)
str(n) == IF n < 10 THEN <<DigitChar(n)>> ELSE str(n \div 10) \o <<DigitChar(n % 10)>>

\* The columns of a row of SELECT * FROM student: record[0] .. record[6].
Id(record) == record[1]
Name(record) == record[2]
Age(record) == record[3]
Marks(record) == record[4]
Department(record) == record[5]
Hobby(record) == record[6]
Sport(record) == record[7]

\* The values answer_question gives: a sentence, a list made from a set (of
\* strings or of numbers), the mark distribution, or the error it ends in.
Sentence(text) ==
    [type |-> "str", text |-> text, strings |-> {}, numbers |-> {}, counts |-> <<>>]
ListOfStrings(S) ==
    [type |-> "list", text |-> <<>>, strings |-> S, numbers |-> {}, counts |-> <<>>]
ListOfNumbers(S) ==
    [type |-> "list", text |-> <<>>, strings |-> {}, numbers |-> S, counts |-> <<>>]
Dict(f) ==
    [type |-> "dict", text |-> <<>>, strings |-> {}, numbers |-> {}, counts |-> f]
ValueError ==
    [type |-> "ValueError", text |-> <<>>, strings |-> {}, numbers |-> {}, counts |-> <<>>]
NoAnswer ==
    [type |-> "None", text |-> <<>>, strings |-> {}, numbers |-> {}, counts |-> <<>>]

RECURSIVE Sum(_)
Sum(xs) == IF xs = <<>> THEN 0 ELSE Head(xs) + Sum(Tail(xs))

\* [f(record) for record in records]
Column(recs, col) == [k \in 1..Len(recs) |-> recs[k][col]]

\* f"{np.mean(xs):.2f}": nan for no values (np.mean warns and gives nan);
\* otherwise the mean rounded to hundredths, a tie to the even hundredth.
Hundredths(total, n) ==
    LET q == (100 * total) \div n
        r == (100 * total) % n
    IN  IF 2 * r > n \/ (2 * r = n /\ q % 2 = 1) THEN q + 1 ELSE q

format_2f(xs) ==
    IF xs = <<>> THEN <<"n", "a", "n">>
    ELSE LET h == Hundredths(Sum(xs), Len(xs))
         IN  str(h \div 100) \o <<".">> \o <<DigitChar((h % 100) \div 10), DigitChar(h % 10)>>

average_age(recs) ==
    {Sentence(AverageAgePrefix \o format_2f(Column(recs, 3)) \o AverageAgeSuffix)}

\* A variant of highest_marks: max(marks, default=0), which guards the empty
\* list.
highest_marks_with_default(recs) ==
    {Sentence(HighestMarksPrefix
                \o str(Max({0} \cup {Marks(recs[k]) : k \in 1..Len(recs)}))
                \o <<".">>)}

\* max(marks): a ValueError on no marks.
highest_marks(recs) ==
    IF recs = <<>> THEN {ValueError}
    ELSE {Sentence(HighestMarksPrefix
                     \o str(Max({Marks(recs[k]) : k \in 1..Len(recs)}))
                     \o <<".">>)}

computer_science_students(recs) ==
    {Sentence(CountPrefix
                \o str(Cardinality({k \in 1..Len(recs) :
                           Contains(lower(Department(recs[k])), ComputerScience)}))
                \o CountSuffix)}

\* [x.strip() for record in records for x in record[col].split(",")]
RECURSIVE Tokens(_, _)
Tokens(recs, col) ==
    IF recs = <<>> THEN <<>>
    ELSE LET parts == split(Head(recs)[col], <<",">>)
         IN  [k \in 1..Len(parts) |-> strip(parts[k], Whitespace)]
                 \o Tokens(Tail(recs), col)

Range(xs) == {xs[k] : k \in 1..Len(xs)}

Count(xs, x) == Cardinality({k \in 1..Len(xs) : xs[k] = x})

\* max(set(all_hobbies), key=all_hobbies.count): a ValueError on no token;
\* among the most frequent tokens, the one the set yields first, which the
\* hashing of strings decides.
common_hobbies(recs) ==
    LET all_hobbies == Tokens(recs, 6)
    IN  IF all_hobbies = <<>> THEN {ValueError}
        ELSE {Sentence(CommonHobbyPrefix \o h \o <<".">>) :
                h \in {x \in Range(all_hobbies) :
                         \A y \in Range(all_hobbies) :
                             Count(all_hobbies, y) <= Count(all_hobbies, x)}}

mark_distribution(recs) ==
    LET marks == Column(recs, 4)
    IN  {Dict([m \in Range(marks) |-> Count(marks, m)])}

\* marks_by_department[department]
MarksOf(recs, department) ==
    LET RECURSIVE Pick(_)
        Pick(rs) ==
            IF rs = <<>> THEN <<>>
            ELSE IF Department(Head(rs)) = department
                 THEN <<Marks(Head(rs))>> \o Pick(Tail(rs))
                 ELSE Pick(Tail(rs))
    IN  Pick(recs)

\* np.mean(xs) <= np.mean(ys), both not empty.
MeanLeq(xs, ys) == Sum(xs) * Len(ys) <= Sum(ys) * Len(xs)

\* max(marks_by_department, key=mean): a ValueError on no department; among
\* the departments of the highest mean, the one the set yields first.
highest_average_marks(recs) ==
    LET departments == Range(Column(recs, 5))
    IN  IF departments = {} THEN {ValueError}
        ELSE {Sentence(HighestAveragePrefix \o d \o <<".">>) :
                d \in {x \in departments :
                         \A y \in departments :
                             MeanLeq(MarksOf(recs, y), MarksOf(recs, x))}}

all_names(recs) == {ListOfStrings(Range(Column(recs, 2)))}
all_ages(recs) == {ListOfNumbers(Range(Column(recs, 3)))}
all_hobbies_list(recs) == {ListOfStrings(Range(Tokens(recs, 6)))}
all_departments(recs) == {ListOfStrings(Range(Column(recs, 5)))}
all_sports(recs) == {ListOfStrings(Range(Tokens(recs, 7)))}

\* A variant of answer_question: the test for "highest average marks" placed
\* before the test for "highest marks".
answer_question_reordered(q, recs) ==
    LET lowered == lower(q)
    IN  IF Contains(lowered, AverageAgeTrigger) THEN average_age(recs)
        ELSE IF Contains(lowered, HighestAverageTrigger)
            THEN highest_average_marks(recs)
        ELSE IF Contains(lowered, HighestMarksTrigger) THEN highest_marks(recs)
        ELSE IF Contains(lowered, ComputerScienceTrigger)
            THEN computer_science_students(recs)
        ELSE IF Contains(lowered, CommonHobbiesTrigger) THEN common_hobbies(recs)
        ELSE IF Contains(lowered, DistributionTrigger) THEN mark_distribution(recs)
        ELSE IF Contains(lowered, NamesTrigger) THEN all_names(recs)
        ELSE IF Contains(lowered, AgesTrigger) THEN all_ages(recs)
        ELSE IF Contains(lowered, HobbiesTrigger) THEN all_hobbies_list(recs)
        ELSE IF Contains(lowered, DepartmentsTrigger) THEN all_departments(recs)
        ELSE IF Contains(lowered, SportsTrigger) THEN all_sports(recs)
        ELSE {Sentence(NotUnderstood)}

\* The values answer_question(question, records) can give: the if/elif chain.
answer_question(q, recs) ==
    LET lowered == lower(q)
    IN  IF Contains(lowered, AverageAgeTrigger) THEN average_age(recs)
        ELSE IF Contains(lowered, HighestMarksTrigger) THEN highest_marks(recs)
        ELSE IF Contains(lowered, ComputerScienceTrigger)
            THEN computer_science_students(recs)
        ELSE IF Contains(lowered, CommonHobbiesTrigger) THEN common_hobbies(recs)
        ELSE IF Contains(lowered, DistributionTrigger) THEN mark_distribution(recs)
        ELSE IF Contains(lowered, HighestAverageTrigger)
            THEN highest_average_marks(recs)
        ELSE IF Contains(lowered, NamesTrigger) THEN all_names(recs)
        ELSE IF Contains(lowered, AgesTrigger) THEN all_ages(recs)
        ELSE IF Contains(lowered, HobbiesTrigger) THEN all_hobbies_list(recs)
        ELSE IF Contains(lowered, DepartmentsTrigger) THEN all_departments(recs)
        ELSE IF Contains(lowered, SportsTrigger) THEN all_sports(recs)
        ELSE {Sentence(NotUnderstood)}

\* A variant of records_after_answer: the list sorted in place by a branch,
\* records.reverse() standing for it.
records_after_reverse(q, recs) == [k \in 1..Len(recs) |-> recs[Len(recs) + 1 - k]]

\* The records after the call: answer_question reads them and builds new
\* lists, sets and dictionaries; it assigns to none of them.
records_after_answer(q, recs) == recs

-----------------------------------------------------------------------------
(* generate_student_profile *)

\* What model.generate_content does: it raises (a transport error), or it
\* gives a response with no candidate, with a first candidate that has no
\* parts, with a field whose access raises, or with the text of a first part.
ResponseKinds == {"transport_error", "no_candidates", "no_parts", "malformed", "text"}

Response(kind, text) == [kind |-> kind, text |-> text]

NoResponse == Response("none", <<>>)

\* The value generate_student_profile gives for a response; "Exception" is
\* the exception the call ends in. generate_content is called before the
\* try block; the accesses to the response and extract_student_info are
\* inside it.
generate_student_profile(resp) ==
    IF resp.kind = "transport_error" THEN NoStudent("Exception")
    ELSE IF resp.kind = "malformed" THEN None
    ELSE IF resp.kind = "no_candidates" THEN None
    ELSE IF resp.kind = "no_parts" THEN None
    ELSE LET student_info == extract_student_info(strip(resp.text, Whitespace))
         IN  IF student_info.type = "dict" THEN student_info ELSE None

-----------------------------------------------------------------------------
(* The student table, insert_generated_records and fetch_records *)

\* The row INSERT adds for a profile.
Row(id, s) == <<id, s.name, s.age, s.marks, s.department, s.hobbies, s.sport>>

\* A variant of NextId: one more than the ID of the first row.
NextIdAfterFirstRow(rows) == IF rows = <<>> THEN 1 ELSE Id(rows[1]) + 1

\* The ID an INTEGER PRIMARY KEY column gets when none is given: one more than
\* the largest in the table, 1 in an empty table.
NextId(rows) ==
    IF rows = <<>> THEN 1 ELSE Max({Id(rows[k]) : k \in 1..Len(rows)}) + 1

\* A variant of insert: a connection in autocommit mode, on which every
\* INSERT is committed as it is executed.
insert_autocommit(committed, pending, row) ==
    [store |-> Append(committed \o pending, row), txn |-> <<>>]

\* cur.execute("INSERT ..."): the row joins the rows of the connection's open
\* transaction; the committed rows change at conn.commit() only.
insert(committed, pending, row) ==
    [store |-> committed, txn |-> Append(pending, row)]

\* SELECT * FROM student on a new connection: the committed rows.
fetch_records(committed) == committed

\* records[:n]
FirstRows(rows, n) == SubSeq(rows, 1, IF n < Len(rows) THEN n ELSE Len(rows))

\* "  **Name:** Al\n**Age:** 20\n**Marks:** 70\n**Department:** Computer Science\n**Hobbies:**\n* chess\n* art\n**Sport:**\n* golf\n"
FullProfileText ==
    <<" ", " ", "*", "*", "N", "a", "m", "e", ":", "*", "*", " ", "A", "l",
      "\n", "*", "*", "A", "g", "e", ":", "*", "*", " ", "2", "0", "\n",
      "*", "*", "M", "a", "r", "k", "s", ":", "*", "*", " ", "7", "0",
      "\n", "*", "*", "D", "e", "p", "a", "r", "t", "m", "e", "n", "t",
      ":", "*", "*", " ", "C", "o", "m", "p", "u", "t", "e", "r", " ", "S",
      "c", "i", "e", "n", "c", "e", "\n", "*", "*", "H", "o", "b", "b",
      "i", "e", "s", ":", "*", "*", "\n", "*", " ", "c", "h", "e", "s",
      "s", "\n", "*", " ", "a", "r", "t", "\n", "*", "*", "S", "p", "o",
      "r", "t", ":", "*", "*", "\n", "*", " ", "g", "o", "l", "f", "\n">>

\* "**Name:** Bo\n**Age:** x\n**Marks:** 85"
PartialProfileText ==
    <<"*", "*", "N", "a", "m", "e", ":", "*", "*", " ", "B", "o", "\n",
      "*", "*", "A", "g", "e", ":", "*", "*", " ", "x", "\n", "*", "*",
      "M", "a", "r", "k", "s", ":", "*", "*", " ", "8", "5">>

\* "What is the average age?"
WhatIsTheAverageAge ==
    <<"W", "h", "a", "t", " ", "i", "s", " ", "t", "h", "e", " ", "a", "v",
      "e", "r", "a", "g", "e", " ", "a", "g", "e", "?">>

\* "What are the highest marks?"
WhatAreTheHighestMarks ==
    <<"W", "h", "a", "t", " ", "a", "r", "e", " ", "t", "h", "e", " ", "h",
      "i", "g", "h", "e", "s", "t", " ", "m", "a", "r", "k", "s", "?">>

\* "xyz unrelated question"
Unrelated ==
    <<"x", "y", "z", " ", "u", "n", "r", "e", "l", "a", "t", "e", "d", " ",
      "q", "u", "e", "s", "t", "i", "o", "n">>

-----------------------------------------------------------------------------
(* The app: every interaction runs the script from its first line.        *)

GenTexts == {FullProfileText, PartialProfileText}

Responses ==
    {Response(k, <<>>) : k \in ResponseKinds \ {"text"}}
        \cup {Response("text", t) : t \in GenTexts}

AppQuestions == {<<>>, WhatIsTheAverageAge, WhatAreTheHighestMarks, Unrelated}

Buttons == {"generate", "display", "none"}

\* What a run starts from: no name of the script is bound yet.
FreshRun ==
    /\ student' = None
    /\ response' = NoResponse
    /\ records' = <<>>
    /\ fetched' = FALSE
    /\ shown' = <<>>
    /\ answer' = NoAnswer
    /\ iter' = 0
    /\ skipped' = 0

Init ==
    /\ store = <<>>
    /\ table = FALSE
    /\ txn = <<>>
    /\ before = <<>>
    /\ num_records = 1
    /\ clicked = "none"
    /\ question = <<>>
    /\ content_text = <<>>
    /\ student = None
    /\ response = NoResponse
    /\ records = <<>>
    /\ fetched = FALSE
    /\ shown = <<>>
    /\ answer = NoAnswer
    /\ iter = 0
    /\ skipped = 0
    /\ pc = "generate"

\* The user sets the number, types a question or presses a button, and the
\* script runs again (lines 192-196 and 213 read the inputs).
Rerun(n, button, q) ==
    /\ pc \in {"idle", "aborted"}
    /\ button = "generate" => Len(store) + n <= MaxRows
    /\ num_records' = n
    /\ clicked' = button
    /\ question' = q
    /\ FreshRun
    /\ pc' = "generate"
    /\ UNCHANGED <<store, table, txn, before, content_text>>

\* Line 199 with the button pressed: insert_generated_records up to its loop.
StartBatch ==
    /\ pc = "generate"
    /\ clicked = "generate"
    /\ table' = TRUE
    /\ txn' = <<>>
    /\ before' = store
    /\ iter' = 0
    /\ skipped' = 0
    /\ pc' = "loop"
    /\ UNCHANGED <<store, num_records, clicked, question, content_text, student,
                   response, records, fetched, shown, answer>>

SkipGenerate ==
    /\ pc = "generate"
    /\ clicked # "generate"
    /\ pc' = "display"
    /\ UNCHANGED <<store, table, txn, before, num_records, clicked, question,
                   content_text, student, response, records, fetched, shown,
                   answer, iter, skipped>>

\* One iteration of the loop of insert_generated_records. An exception of
\* generate_student_profile ends the function and the run before the commit:
\* the connection is dropped and its transaction rolled back.
Iteration(resp) ==
    /\ pc = "loop"
    /\ iter < num_records
    /\ response' = resp
    /\ student' = generate_student_profile(resp)
    /\ content_text' = IF resp.kind = "text" THEN strip(resp.text, Whitespace)
                       ELSE content_text
    /\ IF student'.type = "Exception"
       THEN /\ txn' = <<>>
            /\ pc' = "aborted"
            /\ UNCHANGED <<store, iter, skipped>>
       ELSE IF student'.type = "None"
       THEN /\ skipped' = skipped + 1
            /\ iter' = iter + 1
            /\ UNCHANGED <<store, txn, pc>>
       ELSE LET after == insert(store, txn, Row(NextId(store \o txn), student'))
            IN  /\ store' = after.store
                /\ txn' = after.txn
                /\ iter' = iter + 1
                /\ UNCHANGED <<skipped, pc>>
    /\ UNCHANGED <<table, before, num_records, clicked, question,
                   records, fetched, shown, answer>>

\* A variant of Commit: conn.close() with no conn.commit() before it, which
\* rolls the transaction back.
CloseWithoutCommit ==
    /\ pc = "loop"
    /\ iter = num_records
    /\ txn' = <<>>
    /\ pc' = "display"
    /\ UNCHANGED <<store, table, before, num_records, clicked, question,
                   content_text, student, response, records, fetched, shown,
                   answer, iter, skipped>>

\* conn.commit() and conn.close() after the loop, then line 201.
Commit ==
    /\ pc = "loop"
    /\ iter = num_records
    /\ store' = store \o txn
    /\ txn' = <<>>
    /\ pc' = "display"
    /\ UNCHANGED <<table, before, num_records, clicked, question, content_text,
                   student, response, records, fetched, shown, answer, iter, skipped>>

\* Line 204 with the button pressed; SELECT on a database without the table
\* raises.
Display ==
    /\ pc = "display"
    /\ clicked = "display"
    /\ IF table
       THEN /\ records' = fetch_records(store)
            /\ fetched' = TRUE
            /\ shown' = FirstRows(fetch_records(store), num_records)
            /\ pc' = "question"
       ELSE /\ pc' = "aborted"
            /\ UNCHANGED <<records, fetched, shown>>
    /\ UNCHANGED <<store, table, txn, before, num_records, clicked, question,
                   content_text, student, response, answer, iter, skipped>>

SkipDisplay ==
    /\ pc = "display"
    /\ clicked # "display"
    /\ pc' = "question"
    /\ UNCHANGED <<store, table, txn, before, num_records, clicked, question,
                   content_text, student, response, records, fetched, shown,
                   answer, iter, skipped>>

\* Lines 216-218 with a question typed.
Ask ==
    /\ pc = "question"
    /\ question # <<>>
    /\ IF table
       THEN /\ fetched' = TRUE
            /\ answer' \in answer_question(question, fetch_records(store))
            /\ records' = records_after_answer(question, fetch_records(store))
            /\ pc' = IF answer'.type = "ValueError" THEN "aborted" ELSE "idle"
       ELSE /\ pc' = "aborted"
            /\ UNCHANGED <<records, fetched, answer>>
    /\ UNCHANGED <<store, table, txn, before, num_records, clicked, question,
                   content_text, student, response, shown, iter, skipped>>

NoQuestion ==
    /\ pc = "question"
    /\ question = <<>>
    /\ pc' = "idle"
    /\ UNCHANGED <<store, table, txn, before, num_records, clicked, question,
                   content_text, student, response, records, fetched, shown,
                   answer, iter, skipped>>

Next ==
    \/ \E n \in 1..MaxBatch, button \in Buttons, q \in AppQuestions : Rerun(n, button, q)
    \/ StartBatch
    \/ SkipGenerate
    \/ \E resp \in Responses : Iteration(resp)
    \/ Commit
    \/ Display
    \/ SkipDisplay
    \/ Ask
    \/ NoQuestion

Spec == Init /\ [][Next]_vars

-----------------------------------------------------------------------------
(* The extractor as a function of its input: the input is any text made of *)
(* at most MaxPieces pieces.                                               *)

\* The variables of the app, for the checks of one function alone.
NoApp ==
    /\ store = <<>>
    /\ table = FALSE
    /\ txn = <<>>
    /\ before = <<>>
    /\ num_records = 1
    /\ clicked = "none"
    /\ response = NoResponse
    /\ fetched = FALSE
    /\ shown = <<>>
    /\ iter = 0
    /\ skipped = 0

app_vars ==
    <<store, table, txn, before, num_records, clicked, response, fetched, shown,
      iter, skipped>>

TextPieces ==
    {NameMarker, AgeMarker, MarksMarker, DepartmentMarker, HobbiesMarker,
     SportMarker, <<"\n">>, <<"*", " ">>, <<"\t">>, <<"a">>, <<"7">>}

RECURSIVE Concat(_)
Concat(pieces) ==
    IF pieces = <<>> THEN <<>> ELSE Head(pieces) \o Concat(Tail(pieces))

\* The sequences of at most n elements of S.
SeqsUpTo(S, n) == UNION {[1..k -> S] : k \in 0..n}

InitExtract ==
    /\ \E ps \in SeqsUpTo(TextPieces, MaxPieces) : content_text = Concat(ps)
    /\ student = None
    /\ pc = "extract"
    /\ NoApp
    /\ question = <<>>
    /\ records = <<>>
    /\ answer = NoAnswer

Extract ==
    /\ pc = "extract"
    /\ student' = extract_student_info(content_text)
    /\ pc' = "extracted"
    /\ UNCHANGED <<content_text, question, records, answer, app_vars>>

NextExtract == Extract

SpecExtract == InitExtract /\ [][NextExtract]_vars

\* "Al"
Al ==
    <<"A", "l">>

\* "Bo"
Bo ==
    <<"B", "o">>

\* "Computer Science"
ComputerScienceDept ==
    <<"C", "o", "m", "p", "u", "t", "e", "r", " ", "S", "c", "i", "e", "n",
      "c", "e">>

\* "Physics"
Physics ==
    <<"P", "h", "y", "s", "i", "c", "s">>

\* "chess, art"
ChessArt ==
    <<"c", "h", "e", "s", "s", ",", " ", "a", "r", "t">>

\* "art"
Art ==
    <<"a", "r", "t">>

\* "golf"
Golf ==
    <<"g", "o", "l", "f">>

\* "golf, polo"
GolfPolo ==
    <<"g", "o", "l", "f", ",", " ", "p", "o", "l", "o">>

\* "AVERAGE AGE"
UpperAverageAge ==
    <<"A", "V", "E", "R", "A", "G", "E", " ", "A", "G", "E">>

\* "Highest Marks"
MixedHighestMarks ==
    <<"H", "i", "g", "h", "e", "s", "t", " ", "M", "a", "r", "k", "s">>

\* "xyz "
Xyz ==
    <<"x", "y", "z", " ">>

-----------------------------------------------------------------------------
(* The answerer as a function of its inputs: a question made of at most    *)
(* MaxQuestionPieces pieces, over at most MaxRecords rows.                 *)

\* Profiles as extract_student_info gives them; the last is the record of a
\* text in which only the name and the two numbers were found.
SampleProfiles ==
    {<<Al, 20, 70, ComputerScienceDept, ChessArt, Golf>>,
     <<Bo, 23, 85, Physics, Art, GolfPolo>>,
     <<Al, 22, 70, Unknown, <<>>, <<>>>>}

\* The rows of a table filled with the profiles ps in this order.
Rows(ps) == [k \in 1..Len(ps) |-> <<k>> \o ps[k]]

QuestionPieces ==
    {AverageAgeTrigger, HighestMarksTrigger, ComputerScienceTrigger,
     CommonHobbiesTrigger, DistributionTrigger, HighestAverageTrigger,
     NamesTrigger, AgesTrigger, HobbiesTrigger, DepartmentsTrigger,
     SportsTrigger, UpperAverageAge, MixedHighestMarks, Xyz}

InitAnswer ==
    /\ \E ps \in SeqsUpTo(QuestionPieces, MaxQuestionPieces) : question = Concat(ps)
    /\ \E ps \in SeqsUpTo(SampleProfiles, MaxRecords) : records = Rows(ps)
    /\ answer = NoAnswer
    /\ pc = "answer"
    /\ NoApp
    /\ content_text = <<>>
    /\ student = None

Answer ==
    /\ pc = "answer"
    /\ answer' \in answer_question(question, records)
    /\ records' = records_after_answer(question, records)
    /\ pc' = "answered"
    /\ UNCHANGED <<question, content_text, student, app_vars>>

NextAnswer == Answer

SpecAnswer == InitAnswer /\ [][NextAnswer]_vars

-----------------------------------------------------------------------------
(* Properties of extract_student_info, checked under SpecExtract.          *)

\* The text that follows the first occurrence of marker.
AfterFirst(text, marker) ==
    SubSeq(text, find(text, marker) + Len(marker), Len(text))

\* The text that precedes the first occurrence of marker, all of it when
\* there is none.
UpToNext(text, marker) ==
    IF Contains(text, marker)
    THEN SubSeq(text, 1, find(text, marker) - 1)
    ELSE text

\* No occurrence of the field's marker is followed by a digit: the field is
\* absent, or what follows it is no number.
NoNumberAfter(text, marker) ==
    \A k \in Occurrences(text, marker) :
        \/ k + Len(marker) > Len(text)
        \/ text[k + Len(marker)] \notin Digits

C3_EitherMarkerMissingGivesNoHobbies ==
    (/\ pc = "extracted"
     /\ \/ ~Contains(content_text, HobbiesMarker)
        \/ ~Contains(content_text, SportMarker))
        => student.hobbies = <<>>

\* C3, amended: the stored hobbies string is "" whenever the **Hobbies:**
\* marker is missing; when only the **Sport:** marker is missing, the
\* hobbies are the items of the lines between the first **Hobbies:** marker
\* and the next one, or the end of the input.
C3_HobbiesMarkerMissingGivesNoHobbies ==
    pc = "extracted" =>
        /\ ~Contains(content_text, HobbiesMarker) => student.hobbies = <<>>
        /\ (Contains(content_text, HobbiesMarker) /\ ~Contains(content_text, SportMarker))
              => student.hobbies =
                    join(CommaSpace,
                         section_items(UpToNext(AfterFirst(content_text, HobbiesMarker),
                                                HobbiesMarker)))

\* A text with sports and no **Hobbies:** marker: no hobbies.
C3_Witness ==
    /\ pc = "extracted"
    /\ ~Contains(content_text, HobbiesMarker)
    /\ Contains(content_text, SportMarker)
    /\ student.sport # <<>>
    /\ student.hobbies = <<>>

\* One item for every non-blank line, stripped of '*' and ' ' at both ends
\* and then of whitespace at both ends.
RECURSIVE TwiceStrippedLines(_)
TwiceStrippedLines(lines) ==
    IF lines = <<>> THEN <<>>
    ELSE IF strip(Head(lines), Whitespace) # <<>>
         THEN <<strip(strip(Head(lines), {"*", " "}), Whitespace)>>
                  \o TwiceStrippedLines(Tail(lines))
         ELSE TwiceStrippedLines(Tail(lines))

\* C7, as claimed: with a **Sport:** marker in the text, the sport list is
\* built from all the text after the first marker up to the end of the
\* input, lines after a later **Sport:** included.
C7_SportsRunToEndOfInput ==
    (pc = "extracted" /\ Contains(content_text, SportMarker))
        => student.sport =
              join(CommaSpace,
                   TwiceStrippedLines(
                       split(AfterFirst(content_text, SportMarker), <<"\n">>)))

\* C7, amended: with a **Sport:** marker in the text, the sport list is built
\* from the text between the first marker and the next **Sport:** marker, or
\* the end of the input when there is no other; every non-blank line of it
\* gives one item, stripped of '*' and ' ' and then of whitespace.
C7_SportsRunToNextMarker ==
    (pc = "extracted" /\ Contains(content_text, SportMarker))
        => student.sport =
              join(CommaSpace,
                   TwiceStrippedLines(
                       split(UpToNext(AfterFirst(content_text, SportMarker), SportMarker),
                             <<"\n">>)))

\* Two **Sport:** markers, each followed by a line: only the first line is a
\* sport.
C7_Witness ==
    /\ pc = "extracted"
    /\ Cardinality(Occurrences(content_text, SportMarker)) = 2
    /\ AfterFirst(AfterFirst(content_text, SportMarker), SportMarker) = <<"7">>
    /\ student.sport = <<"a">>

-----------------------------------------------------------------------------
(* Properties of answer_question, checked under SpecAnswer.                *)

\* The triggers in the order of the if/elif chain.
TriggerList ==
    <<AverageAgeTrigger, HighestMarksTrigger, ComputerScienceTrigger,
      CommonHobbiesTrigger, DistributionTrigger, HighestAverageTrigger,
      NamesTrigger, AgesTrigger, HobbiesTrigger, DepartmentsTrigger, SportsTrigger>>

\* The position of the first trigger of the list, from position k on, that
\* the lowercased question holds; 0 when it holds none of them.
RECURSIVE FirstFrom(_, _)
FirstFrom(lowered, k) ==
    IF k > Len(TriggerList) THEN 0
    ELSE IF Contains(lowered, TriggerList[k]) THEN k
    ELSE FirstFrom(lowered, k + 1)

FirstTrigger(q) == FirstFrom(lower(q), 1)

\* The computation of the trigger at position k.
Computation(k, recs) ==
    CASE k = 1 -> average_age(recs)
      [] k = 2 -> highest_marks(recs)
      [] k = 3 -> computer_science_students(recs)
      [] k = 4 -> common_hobbies(recs)
      [] k = 5 -> mark_distribution(recs)
      [] k = 6 -> highest_average_marks(recs)
      [] k = 7 -> all_names(recs)
      [] k = 8 -> all_ages(recs)
      [] k = 9 -> all_hobbies_list(recs)
      [] k = 10 -> all_departments(recs)
      [] k = 11 -> all_sports(recs)

\* C4: the first trigger of the fixed list that is a substring of the
\* lowercased question decides the result, whatever other triggers the
\* question holds; a question that holds none gets the "not understood"
\* sentence, whatever the records.
C4_FirstTriggerDecides ==
    pc = "answered" =>
        LET first == FirstTrigger(question)
        IN  IF first = 0
            THEN answer = Sentence(NotUnderstood)
            ELSE answer \in Computation(first, records)

\* A question that names "highest average marks" and then "highest marks":
\* the answer is the highest marks, the earlier trigger of the list.
C4_Witness ==
    /\ pc = "answered"
    /\ question = HighestAverageTrigger \o HighestMarksTrigger
    /\ Len(records) = 2
    /\ answer = Sentence(HighestMarksPrefix \o <<"8", "5", ".">>)

NanSentence == Sentence(AverageAgePrefix \o <<"n", "a", "n">> \o AverageAgeSuffix)

ZeroCountSentence == Sentence(CountPrefix \o <<"0">> \o CountSuffix)

\* What C8 says of the branches that do not fail on no records: a count of
\* 0, an empty mapping, an empty list, the "not understood" sentence.
EmptyRecordsValue(k) ==
    /\ k = 3 => answer = ZeroCountSentence
    /\ k = 5 => answer = Dict(<<>>)
    /\ k \in 7..11 => answer = ListOfStrings({})
    /\ k = 0 => answer = Sentence(NotUnderstood)

\* C8, as claimed: on no records, "average age", "highest marks", "common
\* hobbies" and "highest average marks" each end in a runtime failure, and
\* the other branches return a value.
C8_MeanMaxModeFailOnNoRecords ==
    (pc = "answered" /\ records = <<>>) =>
        LET first == FirstTrigger(question)
        IN  /\ first \in {1, 2, 4, 6} => answer.type = "ValueError"
            /\ EmptyRecordsValue(first)

\* C8, amended: on no records, "highest marks", "common hobbies" and "highest
\* average marks" each end in a ValueError; "average age" does not fail, it
\* returns its sentence with the mean written nan; the other branches
\* return a value.
C8_MaxModeFailOnNoRecords ==
    (pc = "answered" /\ records = <<>>) =>
        LET first == FirstTrigger(question)
        IN  /\ first \in {2, 4, 6} => answer = ValueError
            /\ first = 1 => answer = NanSentence
            /\ EmptyRecordsValue(first)

\* "AVERAGE AGE" asked of no records: the sentence with nan.
C8_Witness ==
    /\ pc = "answered"
    /\ records = <<>>
    /\ question = UpperAverageAge
    /\ answer = NanSentence

-----------------------------------------------------------------------------
(* Properties of the app, checked under Spec.                              *)

\* The generation failures: no candidate, a candidate with no parts, a
\* malformed response, an error raised by the generation call.
GenerationFailures == {"no_candidates", "no_parts", "malformed", "transport_error"}

\* C1: after every generation failure generate_student_profile has given no
\* record and raised nothing, and insert_generated_records has skipped the
\* insert and gone on with the batch.
C1_FailureIsSkipped ==
    response.kind \in GenerationFailures =>
        /\ student = None
        /\ skipped > 0
        /\ iter > 0

\* s is the start of t.
IsPrefix(s, t) == Len(s) <= Len(t) /\ SubSeq(t, 1, Len(s)) = s

\* The IDs grow along the rows.
IdsIncrease(rows) ==
    \A j, k \in 1..Len(rows) : j < k => Id(rows[j]) < Id(rows[k])

\* C6: the table is append-only: every step leaves the rows persisted so far
\* in place, with their IDs and values, and the IDs are distinct and grow in
\* insert order.
C6_StoreIsAppendOnly == [][IsPrefix(store, store') /\ IdsIncrease(store')]_vars

\* A second batch was added to the rows of a first, and a question answered
\* over them.
C6_Witness ==
    /\ pc = "idle"
    /\ clicked = "generate"
    /\ before # <<>>
    /\ Len(store) = Len(before) + 2
    /\ answer.type = "str"

\* C9: a run reads the table only after its write is complete: when the run
\* has read, no transaction is open and the rows read are the committed
\* rows; if the run generated a batch, these are the rows from before the
\* batch and after them all rows of the batch, one for every iteration not
\* skipped.
C9_ReadsFollowTheCommit ==
    fetched =>
        /\ txn = <<>>
        /\ records = store
        /\ clicked = "generate" =>
              /\ iter = num_records
              /\ IsPrefix(before, store)
              /\ Len(store) = Len(before) + num_records - skipped

\* A run that generated a batch of two, one of them skipped, and then read
\* the table for its question.
C9_Witness ==
    /\ fetched
    /\ clicked = "generate"
    /\ num_records = 2
    /\ skipped = 1
    /\ Len(records) = Len(before) + 1

\* C10: a batch is persisted atomically: the committed rows do not change
\* while the loop runs; leaving the loop by the commit adds the rows of the
\* batch, one for every iteration not skipped; leaving it by an error leaves
\* the committed rows as they were before the batch.
C10_BatchIsAtomic ==
    [][pc = "loop" =>
          \/ pc' = "loop" /\ store' = store
          \/ /\ pc' = "display"
             /\ store = before
             /\ store' = before \o txn
             /\ Len(store') = Len(before) + num_records - skipped
          \/ pc' = "aborted" /\ store' = before]_vars

\* A batch of two was committed with one iteration skipped.
C10_Witness ==
    /\ pc = "display"
    /\ clicked = "generate"
    /\ num_records = 2
    /\ skipped = 1
    /\ Len(store) = Len(before) + 1

=============================================================================
